---- MODULE Spec2Model ----
(***************************************************************************)
(* Model of CANIVETE/src/main.cpp: the Wi-Fi connector of the M5Cardputer.  *)
(* The ranked network table (insertNetworkSorted), the scan (scanNetworks), *)
(* the keyboard handler (handleKeyboard), the connection poll and the      *)
(* redraw of loop().                                                       *)
(***************************************************************************)
EXTENDS Integers, Sequences, FiniteSets, TLC

\* ------------------------------------------------------------------ bounds

\* Most keys held down in one keyboard read (characters, ENTER and DEL).
MaxKeys == 2
\* Longest password the model lets the user type (String is unbounded).
MaxPwd == 2
\* Most calls of insertNetworkSorted explored after one reset in SpecRank.
MaxOffers == 11

\* ------------------------------------------------------- program constants

MAX_NETWORKS == 10

\* UiState
UI_NO_NETWORKS == "UI_NO_NETWORKS"
UI_SELECT_NETWORK == "UI_SELECT_NETWORK"
UI_ENTER_PASSWORD == "UI_ENTER_PASSWORD"
UI_CONNECTING == "UI_CONNECTING"
UI_CONNECTED == "UI_CONNECTED"
UI_CONNECT_FAILED == "UI_CONNECT_FAILED"

UiState ==
  {UI_NO_NETWORKS, UI_SELECT_NETWORK, UI_ENTER_PASSWORD,
   UI_CONNECTING, UI_CONNECTED, UI_CONNECT_FAILED}

\* wifi_auth_mode_t values the scanner reports (only equality with
\* WIFI_AUTH_OPEN is ever tested).
WIFI_AUTH_OPEN == "WIFI_AUTH_OPEN"
WIFI_AUTH_WEP == "WIFI_AUTH_WEP"
WIFI_AUTH_WPA2_PSK == "WIFI_AUTH_WPA2_PSK"

\* wl_status_t values WiFi.status() can return.
WL_CONNECTED == "WL_CONNECTED"
WL_CONNECT_FAILED == "WL_CONNECT_FAILED"
WL_NO_SSID_AVAIL == "WL_NO_SSID_AVAIL"

WlStatus ==
  {"WL_NO_SHIELD", "WL_IDLE_STATUS", WL_NO_SSID_AVAIL, "WL_SCAN_COMPLETED",
   WL_CONNECTED, WL_CONNECT_FAILED, "WL_CONNECTION_LOST", "WL_DISCONNECTED"}

\* ------------------------------------------------------------------- state

VARIABLES
  g_networks,        \* NetworkInfo g_networks[MAX_NETWORKS]
  g_networkCount,    \* int g_networkCount
  g_selectedIndex,   \* int g_selectedIndex
  g_selectedSsid,    \* String g_selectedSsid
  g_selectedIsOpen,  \* bool g_selectedIsOpen
  g_password,        \* String g_password, as a sequence of characters
  g_needRedraw,      \* bool g_needRedraw
  g_uiState,         \* UiState g_uiState
  pc,                \* position of the control flow: setup(), then loop()'s calls
  ks,                \* handleKeyboard's local KeysState, NoKeys outside the handler
  scanResult,        \* access points held by the Wi-Fi driver since the last scan
  wifiCalls,         \* calls made on WiFi since the top of the current tick
  screen             \* what the display shows

vars ==
  <<g_networks, g_networkCount, g_selectedIndex, g_selectedSsid,
    g_selectedIsOpen, g_password, g_needRedraw, g_uiState, pc, ks,
    scanResult, wifiCalls, screen>>

rankVars == <<g_networks, g_networkCount, g_selectedIndex>>
selVars == <<g_selectedSsid, g_selectedIsOpen, g_password>>

\* ----------------------------------------------------------------- helpers

Indexes == 0 .. (MAX_NETWORKS - 1)

\* A default-constructed NetworkInfo of the zero-initialised global array.
EmptyInfo == [ssid |-> "", rssi |-> 0, encType |-> WIFI_AUTH_OPEN]

NetworkInfo(ssid, rssi, encType) ==
  [ssid |-> ssid, rssi |-> rssi, encType |-> encType]

\* The held entries g_networks[0 .. count-1], strongest first, as a sequence.
Held(nets, count) == [i \in 1 .. count |-> nets[i - 1]]

\* ---------------------------------------------------- insertNetworkSorted

\* The early return taken only by a strictly weaker newcomer.
DiscardsStrictlyWeaker(nets, count, rssi) ==
  count = MAX_NETWORKS /\ rssi < nets[count - 1].rssi

\* Line 96: the table is full and the newcomer is no better than the last.
Discards(nets, count, rssi) ==
  count = MAX_NETWORKS /\ rssi <= nets[count - 1].rssi

RECURSIVE FirstWeaker(_, _, _, _, _)
\* Lines 104-109: the loop from i, leaving pos at the first weaker entry.
FirstWeaker(nets, count, rssi, i, pos) ==
  IF i < count
    THEN IF rssi > nets[i].rssi
           THEN i
           ELSE FirstWeaker(nets, count, rssi, i + 1, pos)
    ELSE pos

FindPosAppend(nets, count, rssi) ==
  IF count > MAX_NETWORKS THEN MAX_NETWORKS ELSE count

FindPosUnstable(nets, count, rssi) ==
  LET ge == {i \in 0 .. (count - 1) : rssi >= nets[i].rssi}
  IN IF ge = {} THEN count ELSE CHOOSE i \in ge : \A j \in ge : i <= j

\* Lines 100-109: the insertion position.
FindPos(nets, count, rssi) ==
  FirstWeaker(nets, count, rssi, 0,
              IF count > MAX_NETWORKS THEN MAX_NETWORKS ELSE count)

\* Line 112: the highest index the shift writes.
ShiftLimit(count) ==
  IF count < MAX_NETWORKS THEN count ELSE MAX_NETWORKS - 1

\* The shift done upwards from pos, each slot copied from the one just written.
ShiftDownAscending(nets, i, pos) ==
  [k \in DOMAIN nets |-> IF pos < k /\ k <= i THEN nets[pos] ELSE nets[k]]

RECURSIVE ShiftDown(_, _, _)
\* Lines 115-117: for (i = limit; i > pos; --i) nets[i] = nets[i - 1].
ShiftDown(nets, i, pos) ==
  IF i > pos
    THEN ShiftDown([nets EXCEPT ![i] = nets[i - 1]], i - 1, pos)
    ELSE nets

\* An insertion without the early return, the position capped at the last slot.
InsertNetworkSortedClamped(nets, count, ssid, rssi, encType) ==
  LET found == FindPos(nets, count, rssi)
      pos == IF found > MAX_NETWORKS - 1 THEN MAX_NETWORKS - 1 ELSE found
      shifted == ShiftDown(nets, ShiftLimit(count), pos)
  IN [nets |-> [shifted EXCEPT ![pos] = NetworkInfo(ssid, rssi, encType)],
      count |-> IF count < MAX_NETWORKS THEN count + 1 ELSE count]

\* Lines 94-128: the table and the count after the call.
InsertNetworkSorted(nets, count, ssid, rssi, encType) ==
  IF Discards(nets, count, rssi)
    THEN [nets |-> nets, count |-> count]
    ELSE LET pos == FindPos(nets, count, rssi)
             shifted == ShiftDown(nets, ShiftLimit(count), pos)
         IN [nets |-> [shifted EXCEPT ![pos] = NetworkInfo(ssid, rssi, encType)],
             count |-> IF count < MAX_NETWORKS THEN count + 1 ELSE count]

\* Lines 96-122: the indexes of the array that a call reads or writes: the
\* last slot when the table is full (line 96), the slots compared by the loop
\* (line 105), both sides of every copy of the shift (line 116), and the slot
\* written (lines 120-122).
AccessedIndexes(nets, count, rssi) ==
  LET weakest == IF count = MAX_NETWORKS THEN {count - 1} ELSE {}
  IN IF Discards(nets, count, rssi)
       THEN weakest
       ELSE LET pos == FindPos(nets, count, rssi)
                compared == {i \in 0 .. (count - 1) : i <= pos}
                copied == UNION {{i, i - 1} : i \in (pos + 1) .. ShiftLimit(count)}
            IN weakest \cup compared \cup copied \cup {pos}

\* ------------------------------------------------------------- environment

\* Access points of the scenarios: a hidden one (empty SSID), and three named.
ApHidden == NetworkInfo("", -30, WIFI_AUTH_WPA2_PSK)
ApA == NetworkInfo("A", -40, WIFI_AUTH_WPA2_PSK)
ApB == NetworkInfo("B", -70, WIFI_AUTH_OPEN)
ApC == NetworkInfo("C", -55, WIFI_AUTH_WEP)
ApD == NetworkInfo("D", -55, WIFI_AUTH_OPEN)

\* A crowded place: one open network served by more access points than the
\* table holds, some equally strong, and a hidden one among them.
CrowdedAps ==
  [i \in 1 .. (MAX_NETWORKS + 2) |->
     IF i = 3 THEN ApHidden
     ELSE NetworkInfo("mesh", IF i % 2 = 0 THEN -60 ELSE -80 + i,
                      WIFI_AUTH_OPEN)]

\* What WiFi.scanNetworks() can return to scanNetworks(): n and the access
\* points WiFi.SSID(i), WiFi.RSSI(i), WiFi.encryptionType(i) then report.
ScanOutcomes ==
  {[n |-> n, aps |-> <<>>] : n \in {-2, 0}}
  \cup {[n |-> Len(aps), aps |-> aps] :
          aps \in {<<ApHidden, ApHidden>>,
                   <<ApA, ApB, ApC>>, <<ApB, ApHidden, ApD, ApC>>,
                   CrowdedAps}}

\* Characters the keyboard can report in ks.word: one of each pair the
\* handler tests for; in the password screen w and S are ordinary characters.
Chars == {"r", "Q", "w", "S"}

Words == UNION {[1 .. n -> Chars] : n \in 0 .. MaxKeys}

\* Keyboard_Class::KeysState as handleKeyboard reads it.
KeysState ==
  {k \in [word : Words, enter : BOOLEAN, del : BOOLEAN] :
     Len(k.word) + (IF k.enter THEN 1 ELSE 0) + (IF k.del THEN 1 ELSE 0)
       <= MaxKeys}

\* ks outside handleKeyboard.
NoKeys == [word |-> <<>>, enter |-> FALSE, del |-> FALSE]

\* One call on the WiFi object.
WifiCall(op, flags, ssid, hasPass, pass) ==
  [op |-> op, flags |-> flags, ssid |-> ssid, hasPass |-> hasPass, pass |-> pass]

\* What the display shows: a view and the data drawn with it.
Screen(view, list, index, ssid, isOpen, password) ==
  [view |-> view, list |-> list, index |-> index, ssid |-> ssid,
   isOpen |-> isOpen, password |-> password]

BlankScreen == Screen("blank", <<>>, 0, "", FALSE, <<>>)
ScanBanner == Screen("scanning", <<>>, 0, "", FALSE, <<>>)

\* ------------------------------------------------------------ scanNetworks

RECURSIVE ScanFill(_, _, _, _)
\* Lines 154-165: the loop over the n access points, from index i (1-based).
ScanFill(nets, count, aps, i) ==
  IF i > Len(aps)
    THEN [nets |-> nets, count |-> count]
    ELSE IF aps[i].ssid = ""
           THEN ScanFill(nets, count, aps, i + 1)
           ELSE LET r == InsertNetworkSorted(nets, count, aps[i].ssid,
                                             aps[i].rssi, aps[i].encType)
                IN ScanFill(r.nets, r.count, aps, i + 1)

\* scanNetworks without the reset of line 134.
ScanNetworksNoReset(res, calls) ==
  LET filled == IF res.n <= 0
                  THEN [nets |-> g_networks, count |-> 0]
                  ELSE ScanFill(g_networks, g_networkCount, res.aps, 1)
  IN /\ g_networks' = filled.nets
     /\ g_networkCount' = filled.count
     /\ g_selectedIndex' = 0
     /\ g_uiState' = IF res.n <= 0 \/ filled.count = 0
                       THEN UI_NO_NETWORKS
                       ELSE UI_SELECT_NETWORK
     /\ g_needRedraw' = TRUE
     /\ scanResult' = res.aps
     /\ screen' = ScanBanner
     /\ wifiCalls' = calls \o <<WifiCall("mode", <<"WIFI_STA">>, "", FALSE, <<>>),
                                WifiCall("disconnect", <<"true">>, "", FALSE, <<>>),
                                WifiCall("scanNetworks", <<>>, "", FALSE, <<>>)>>

\* scanNetworks showing the list whenever the driver found an access point,
\* named or not.
ScanNetworksCountsHidden(res, calls) ==
  LET filled == IF res.n <= 0
                  THEN [nets |-> g_networks, count |-> 0]
                  ELSE ScanFill(g_networks, 0, res.aps, 1)
  IN /\ g_networks' = filled.nets
     /\ g_networkCount' = filled.count
     /\ g_selectedIndex' = 0
     /\ g_uiState' = IF res.n <= 0 THEN UI_NO_NETWORKS ELSE UI_SELECT_NETWORK
     /\ g_needRedraw' = TRUE
     /\ scanResult' = res.aps
     /\ screen' = ScanBanner
     /\ wifiCalls' = calls \o <<WifiCall("mode", <<"WIFI_STA">>, "", FALSE, <<>>),
                                WifiCall("disconnect", <<"true">>, "", FALSE, <<>>),
                                WifiCall("scanNetworks", <<>>, "", FALSE, <<>>)>>

\* Lines 133-176, given what WiFi.scanNetworks() returns and the WiFi calls
\* already made in this tick.
ScanNetworks(res, calls) ==
  LET filled == IF res.n <= 0
                  THEN [nets |-> g_networks, count |-> 0]
                  ELSE ScanFill(g_networks, 0, res.aps, 1)
  IN /\ g_networks' = filled.nets
     /\ g_networkCount' = filled.count
     /\ g_selectedIndex' = 0
     /\ g_uiState' = IF res.n <= 0 \/ filled.count = 0
                       THEN UI_NO_NETWORKS
                       ELSE UI_SELECT_NETWORK
     /\ g_needRedraw' = TRUE
     /\ scanResult' = res.aps
     /\ screen' = ScanBanner
     /\ wifiCalls' = calls \o <<WifiCall("mode", <<"WIFI_STA">>, "", FALSE, <<>>),
                                WifiCall("disconnect", <<"true">>, "", FALSE, <<>>),
                                WifiCall("scanNetworks", <<>>, "", FALSE, <<>>)>>

\* ------------------------------------------------------------------- setup

\* The globals as initialised at lines 38-61.
Init ==
  /\ g_networks = [i \in Indexes |-> EmptyInfo]
  /\ g_networkCount = 0
  /\ g_selectedIndex = 0
  /\ g_selectedSsid = ""
  /\ g_selectedIsOpen = FALSE
  /\ g_password = <<>>
  /\ g_needRedraw = TRUE
  /\ g_uiState = UI_NO_NETWORKS
  /\ pc = "setup"
  /\ ks = NoKeys
  /\ scanResult = <<>>
  /\ wifiCalls = <<>>
  /\ screen = BlankScreen

\* Lines 514-530: setup() ends with the first scan.
Setup ==
  /\ pc = "setup"
  /\ \E res \in ScanOutcomes : ScanNetworks(res, <<>>)
  /\ pc' = "keyboard"
  /\ UNCHANGED <<selVars, ks>>

\* ---------------------------------------------------------- startConnection

\* startConnection with the erasing disconnect of scanNetworks.
StartConnectionCallsErasing(ssid, isOpen, password) ==
  <<WifiCall("mode", <<"WIFI_STA">>, "", FALSE, <<>>),
    WifiCall("disconnect", <<"true">>, "", FALSE, <<>>),
    IF isOpen
      THEN WifiCall("begin", <<>>, ssid, FALSE, <<>>)
      ELSE WifiCall("begin", <<>>, ssid, TRUE, password)>>

\* Lines 336-349: the calls made on WiFi, with the password as it is then.
StartConnectionCalls(ssid, isOpen, password) ==
  <<WifiCall("mode", <<"WIFI_STA">>, "", FALSE, <<>>),
    WifiCall("disconnect", <<"false", "false">>, "", FALSE, <<>>),
    IF isOpen
      THEN WifiCall("begin", <<>>, ssid, FALSE, <<>>)
      ELSE WifiCall("begin", <<>>, ssid, TRUE, password)>>

\* ------------------------------------------------------------ handleKeyboard

IsRescanKey(ch) == ch = "r" \/ ch = "R"
IsBackKey(ch) == ch = "q" \/ ch = "Q"
IsUpKey(ch) == ch = "w" \/ ch = "W"
IsDownKey(ch) == ch = "s" \/ ch = "S"

\* Lines 368-369, 417-418, 384-393: the loops that look for a key in word.
HasRescanKey(word) == \E i \in 1 .. Len(word) : IsRescanKey(word[i])
\* Q or q looked for in the first character only.
HasBackKeyFirstOnly(word) == Len(word) > 0 /\ IsBackKey(word[1])

HasBackKey(word) == \E i \in 1 .. Len(word) : IsBackKey(word[i])
HasNavKey(word) == \E i \in 1 .. Len(word) : IsUpKey(word[i]) \/ IsDownKey(word[i])

\* A network is taken for open unless it is WPA2.
IsOpenNetworkUnlessWpa2(encType) == encType # WIFI_AUTH_WPA2_PSK

\* Line 407: the selected network needs no password.
IsOpenNetwork(encType) == encType = WIFI_AUTH_OPEN

\* Lines 387-390: one step up, wrapping below 0.
KeyUp(idx, count) ==
  IF idx - 1 < 0 THEN count - 1 ELSE idx - 1

\* One step down that wraps one entry too late.
KeyDownWrapsLate(idx, count) ==
  IF idx + 1 > count THEN 0 ELSE idx + 1

\* Lines 395-398: one step down, wrapping at count.
KeyDown(idx, count) ==
  IF idx + 1 >= count THEN 0 ELSE idx + 1

RECURSIVE Navigate(_, _, _, _)
\* Lines 384-402: the selection index after the characters of word from i on.
Navigate(word, i, idx, count) ==
  IF i > Len(word)
    THEN idx
    ELSE IF IsUpKey(word[i]) /\ count > 0
           THEN Navigate(word, i + 1, KeyUp(idx, count), count)
           ELSE IF IsDownKey(word[i]) /\ count > 0
                  THEN Navigate(word, i + 1, KeyDown(idx, count), count)
                  ELSE Navigate(word, i + 1, idx, count)

\* String::remove(index): drops the characters from index (0-based) to the end.
StringRemove(str, index) ==
  IF index >= Len(str) THEN str ELSE SubSeq(str, 1, index)

\* The characters of word put in front of the buffer.
TypeWordInFront(password, word) ==
  SelectSeq(word, LAMBDA ch : ~IsBackKey(ch)) \o password

\* Lines 435-442: the buffer after the characters of word are appended.
TypeWord(password, word) ==
  password \o SelectSeq(word, LAMBDA ch : ~IsBackKey(ch))

\* DEL empties the buffer.
DeleteAll(password, del) ==
  IF del /\ Len(password) > 0 THEN StringRemove(password, 0) ELSE password

\* Lines 445-448: DEL drops the last character of a non-empty buffer.
DeleteLast(password, del) ==
  IF del /\ Len(password) > 0
    THEN StringRemove(password, Len(password) - 1)
    ELSE password

\* Lines 358-363: nothing changed on the keyboard, or nothing is pressed.
HandleKeyboardIdle ==
  /\ pc = "keyboard"
  /\ pc' = "poll"
  /\ wifiCalls' = <<>>
  /\ UNCHANGED <<rankVars, selVars, g_needRedraw, g_uiState, ks, scanResult,
                 screen>>

\* Line 365: the keys state is read.
ReadKeys ==
  /\ pc = "keyboard"
  /\ \E k \in KeysState :
       /\ (/\ g_uiState = UI_ENTER_PASSWORD
           /\ ~g_selectedIsOpen
           /\ ~HasRescanKey(k.word)
           /\ ~HasBackKey(k.word))
            => Len(g_password) + Len(k.word) <= MaxPwd
       /\ ks' = k
  /\ pc' = "dispatch"
  /\ wifiCalls' = <<>>
  /\ UNCHANGED <<rankVars, selVars, g_needRedraw, g_uiState, scanResult, screen>>

\* Lines 367-374: R or r anywhere in the word rescans, whatever the state.
KeyRescan ==
  /\ pc = "dispatch"
  /\ HasRescanKey(ks.word)
  /\ \E res \in ScanOutcomes :
       ScanNetworks(res, <<WifiCall("disconnect", <<"true">>, "", FALSE, <<>>)>>)
  /\ pc' = "poll"
  /\ ks' = NoKeys
  /\ UNCHANGED selVars

\* ENTER on the failure screen goes back to the list.
KeysIgnoredEnterRetries ==
  /\ pc = "dispatch"
  /\ ~HasRescanKey(ks.word)
  /\ g_uiState \in {UI_NO_NETWORKS, UI_CONNECTING, UI_CONNECTED, UI_CONNECT_FAILED}
  /\ g_uiState' = IF ks.enter /\ g_uiState = UI_CONNECT_FAILED
                    THEN UI_SELECT_NETWORK
                    ELSE g_uiState
  /\ g_needRedraw' = (g_needRedraw \/ g_uiState' # g_uiState)
  /\ pc' = "poll"
  /\ ks' = NoKeys
  /\ UNCHANGED <<rankVars, selVars, scanResult, wifiCalls, screen>>

\* DEL still edits the buffer after the connection attempt has begun.
KeysIgnoredDelEdits ==
  /\ pc = "dispatch"
  /\ ~HasRescanKey(ks.word)
  /\ g_uiState \in {UI_NO_NETWORKS, UI_CONNECTING, UI_CONNECTED, UI_CONNECT_FAILED}
  /\ g_password' = DeleteLast(g_password, ks.del)
  /\ pc' = "poll"
  /\ ks' = NoKeys
  /\ UNCHANGED <<rankVars, g_selectedSsid, g_selectedIsOpen, g_needRedraw,
                 g_uiState, scanResult, wifiCalls, screen>>

\* Lines 377-380 and 457-470: states that take no key but the rescan.
KeysIgnored ==
  /\ pc = "dispatch"
  /\ ~HasRescanKey(ks.word)
  /\ g_uiState \in {UI_NO_NETWORKS, UI_CONNECTING, UI_CONNECTED, UI_CONNECT_FAILED}
  /\ pc' = "poll"
  /\ ks' = NoKeys
  /\ UNCHANGED <<rankVars, selVars, g_needRedraw, g_uiState, scanResult,
                 wifiCalls, screen>>

\* Lines 382-413: W/S move the selection, ENTER selects the network.
KeysSelectNetwork ==
  /\ pc = "dispatch"
  /\ ~HasRescanKey(ks.word)
  /\ g_uiState = UI_SELECT_NETWORK
  /\ LET idx == Navigate(ks.word, 1, g_selectedIndex, g_networkCount)
         moved == g_networkCount > 0
                  /\ HasNavKey(ks.word)
         chosen == ks.enter /\ g_networkCount > 0
     IN /\ g_selectedIndex' = idx
        /\ g_selectedSsid' = IF chosen THEN g_networks[idx].ssid ELSE g_selectedSsid
        /\ g_selectedIsOpen' = IF chosen
                                 THEN IsOpenNetwork(g_networks[idx].encType)
                                 ELSE g_selectedIsOpen
        /\ g_password' = IF chosen THEN <<>> ELSE g_password
        /\ g_uiState' = IF chosen THEN UI_ENTER_PASSWORD ELSE g_uiState
        /\ g_needRedraw' = (g_needRedraw \/ moved \/ chosen)
  /\ pc' = "poll"
  /\ ks' = NoKeys
  /\ UNCHANGED <<g_networks, g_networkCount, scanResult, wifiCalls, screen>>

\* Going back to the list without asking for a redraw.
KeysPasswordBackNoRedraw ==
  /\ pc = "dispatch"
  /\ ~HasRescanKey(ks.word)
  /\ g_uiState = UI_ENTER_PASSWORD
  /\ HasBackKey(ks.word)
  /\ g_uiState' = UI_SELECT_NETWORK
  /\ g_password' = <<>>
  /\ pc' = "poll"
  /\ ks' = NoKeys
  /\ UNCHANGED <<rankVars, g_selectedSsid, g_selectedIsOpen, g_needRedraw,
                 scanResult, wifiCalls, screen>>

\* Lines 415-424: Q or q anywhere in the word goes back to the list.
KeysPasswordBack ==
  /\ pc = "dispatch"
  /\ ~HasRescanKey(ks.word)
  /\ g_uiState = UI_ENTER_PASSWORD
  /\ HasBackKey(ks.word)
  /\ g_uiState' = UI_SELECT_NETWORK
  /\ g_password' = <<>>
  /\ g_needRedraw' = TRUE
  /\ pc' = "poll"
  /\ ks' = NoKeys
  /\ UNCHANGED <<rankVars, g_selectedSsid, g_selectedIsOpen, scanResult,
                 wifiCalls, screen>>

\* An open network handled as far as line 448 like a protected one.
KeysPasswordOpenTyping ==
  /\ pc = "dispatch"
  /\ ~HasRescanKey(ks.word)
  /\ g_uiState = UI_ENTER_PASSWORD
  /\ ~HasBackKey(ks.word)
  /\ g_selectedIsOpen
  /\ g_password' = DeleteLast(TypeWord(g_password, ks.word), ks.del)
  /\ IF ks.enter
       THEN /\ g_uiState' = UI_CONNECTING
            /\ g_needRedraw' = TRUE
            /\ wifiCalls' = wifiCalls
                 \o StartConnectionCalls(g_selectedSsid, g_selectedIsOpen, g_password')
       ELSE UNCHANGED <<g_uiState, g_needRedraw, wifiCalls>>
  /\ pc' = "poll"
  /\ ks' = NoKeys
  /\ UNCHANGED <<rankVars, g_selectedSsid, g_selectedIsOpen, scanResult, screen>>

\* Lines 426-432: an open network takes ENTER only.
KeysPasswordOpen ==
  /\ pc = "dispatch"
  /\ ~HasRescanKey(ks.word)
  /\ g_uiState = UI_ENTER_PASSWORD
  /\ ~HasBackKey(ks.word)
  /\ g_selectedIsOpen
  /\ IF ks.enter
       THEN /\ g_uiState' = UI_CONNECTING
            /\ g_needRedraw' = TRUE
            /\ wifiCalls' = wifiCalls
                 \o StartConnectionCalls(g_selectedSsid, g_selectedIsOpen, g_password)
       ELSE UNCHANGED <<g_uiState, g_needRedraw, wifiCalls>>
  /\ pc' = "poll"
  /\ ks' = NoKeys
  /\ UNCHANGED <<rankVars, selVars, scanResult, screen>>

\* Lines 434-455: a protected network takes characters, DEL and ENTER.
KeysPasswordProtected ==
  /\ pc = "dispatch"
  /\ ~HasRescanKey(ks.word)
  /\ g_uiState = UI_ENTER_PASSWORD
  /\ ~HasBackKey(ks.word)
  /\ ~g_selectedIsOpen
  /\ LET typed == TypeWord(g_password, ks.word)
         edited == DeleteLast(typed, ks.del)
     IN /\ g_password' = edited
        /\ g_needRedraw' = (g_needRedraw \/ typed # g_password \/ edited # typed
                            \/ ks.enter)
        /\ IF ks.enter
             THEN /\ g_uiState' = UI_CONNECTING
                  /\ wifiCalls' = wifiCalls
                       \o StartConnectionCalls(g_selectedSsid, g_selectedIsOpen, edited)
             ELSE UNCHANGED <<g_uiState, wifiCalls>>
  /\ pc' = "poll"
  /\ ks' = NoKeys
  /\ UNCHANGED <<rankVars, g_selectedSsid, g_selectedIsOpen, scanResult, screen>>

\* Lines 356-475.
HandleKeyboard ==
  \/ HandleKeyboardIdle
  \/ ReadKeys
  \/ KeyRescan
  \/ KeysIgnored
  \/ KeysSelectNetwork
  \/ KeysPasswordBack
  \/ KeysPasswordOpen
  \/ KeysPasswordProtected

\* ---------------------------------------------------------------- loop

\* A poll that also gives up when the status is WL_DISCONNECTED.
PollConnectionGivesUp ==
  /\ pc = "poll"
  /\ IF g_uiState = UI_CONNECTING
       THEN \E st \in WlStatus :
              /\ wifiCalls' = Append(wifiCalls,
                                     WifiCall("status", <<st>>, "", FALSE, <<>>))
              /\ g_uiState' = IF st = WL_CONNECTED
                                THEN UI_CONNECTED
                                ELSE IF st \in {WL_CONNECT_FAILED, WL_NO_SSID_AVAIL,
                                                "WL_DISCONNECTED"}
                                       THEN UI_CONNECT_FAILED
                                       ELSE g_uiState
              /\ g_needRedraw' = (g_needRedraw \/ g_uiState' # g_uiState)
       ELSE UNCHANGED <<wifiCalls, g_uiState, g_needRedraw>>
  /\ pc' = "display"
  /\ UNCHANGED <<rankVars, selVars, ks, scanResult, screen>>

\* A poll that empties the list when the attempt fails.
PollConnectionDropsList ==
  /\ pc = "poll"
  /\ IF g_uiState = UI_CONNECTING
       THEN \E st \in WlStatus :
              /\ wifiCalls' = Append(wifiCalls,
                                     WifiCall("status", <<st>>, "", FALSE, <<>>))
              /\ g_uiState' = IF st = WL_CONNECTED
                                THEN UI_CONNECTED
                                ELSE IF st = WL_CONNECT_FAILED \/ st = WL_NO_SSID_AVAIL
                                       THEN UI_CONNECT_FAILED
                                       ELSE g_uiState
              /\ g_networkCount' = IF g_uiState' = UI_CONNECT_FAILED
                                     THEN 0
                                     ELSE g_networkCount
              /\ g_needRedraw' = (g_needRedraw \/ g_uiState' # g_uiState)
       ELSE UNCHANGED <<wifiCalls, g_uiState, g_needRedraw, g_networkCount>>
  /\ pc' = "display"
  /\ UNCHANGED <<g_networks, g_selectedIndex, selVars, ks, scanResult, screen>>

\* Lines 540-550: while connecting, the status is read and acted upon.
PollConnection ==
  /\ pc = "poll"
  /\ IF g_uiState = UI_CONNECTING
       THEN \E st \in WlStatus :
              /\ wifiCalls' = Append(wifiCalls,
                                     WifiCall("status", <<st>>, "", FALSE, <<>>))
              /\ g_uiState' = IF st = WL_CONNECTED
                                THEN UI_CONNECTED
                                ELSE IF st = WL_CONNECT_FAILED \/ st = WL_NO_SSID_AVAIL
                                       THEN UI_CONNECT_FAILED
                                       ELSE g_uiState
              /\ g_needRedraw' = (g_needRedraw \/ g_uiState' # g_uiState)
       ELSE UNCHANGED <<wifiCalls, g_uiState, g_needRedraw>>
  /\ pc' = "display"
  /\ UNCHANGED <<rankVars, selVars, ks, scanResult, screen>>

\* Lines 488-509: the screen drawn for the current state.
Draw ==
  CASE g_uiState = UI_NO_NETWORKS ->
         Screen("noNetworks", <<>>, 0, "", FALSE, <<>>)
    [] g_uiState = UI_SELECT_NETWORK ->
         Screen("networkList", Held(g_networks, g_networkCount),
                g_selectedIndex, "", FALSE, <<>>)
    [] g_uiState = UI_ENTER_PASSWORD ->
         Screen("password", <<>>, 0, g_selectedSsid, g_selectedIsOpen,
                IF g_selectedIsOpen THEN <<>> ELSE g_password)
    [] g_uiState = UI_CONNECTING ->
         Screen("connecting", <<>>, 0, g_selectedSsid, FALSE, <<>>)
    [] g_uiState = UI_CONNECTED ->
         Screen("connected", <<>>, 0, "", FALSE, <<>>)
    [] g_uiState = UI_CONNECT_FAILED ->
         Screen("connectFailed", <<>>, 0, "", FALSE, <<>>)

\* Lines 482-510 and 553-556: the redraw that ends the tick.
UpdateDisplayIfNeeded ==
  /\ pc = "display"
  /\ IF g_needRedraw
       THEN /\ g_needRedraw' = FALSE
            /\ screen' = Draw
       ELSE UNCHANGED <<g_needRedraw, screen>>
  /\ pc' = "keyboard"
  /\ wifiCalls' = <<>>
  /\ UNCHANGED <<rankVars, selVars, g_uiState, ks, scanResult>>

\* Lines 532-557.
Loop ==
  \/ HandleKeyboard
  \/ PollConnection
  \/ UpdateDisplayIfNeeded

Next ==
  \/ Setup
  \/ Loop

Spec == Init /\ [][Next]_vars

\* ------------------------------------------------- the ranked table alone

\* Signal strengths and names of the access points offered in SpecRank; the
\* k-th access point of a scan carries the k-th name, so that equally strong
\* ones stay distinguishable.
RssiLevels == {-70, -55, -40}

SsidPool ==
  <<"ap01", "ap02", "ap03", "ap04", "ap05", "ap06", "ap07", "ap08", "ap09",
    "ap10", "ap11", "ap12", "ap13", "ap14">>

EncOf(k) == IF k % 3 = 0 THEN WIFI_AUTH_OPEN ELSE WIFI_AUTH_WPA2_PSK

\* Lines 154-165, one iteration of setup()'s scan for a named access point:
\* the driver reports it and insertNetworkSorted is called with it.
Offer ==
  /\ pc = "setup"
  /\ Len(scanResult) < MaxOffers
  /\ \E rssi \in RssiLevels :
       LET k == Len(scanResult) + 1
           ap == NetworkInfo(SsidPool[k], rssi, EncOf(k))
           r == InsertNetworkSorted(g_networks, g_networkCount,
                                    ap.ssid, ap.rssi, ap.encType)
       IN /\ g_networks' = r.nets
          /\ g_networkCount' = r.count
          /\ scanResult' = Append(scanResult, ap)
  /\ UNCHANGED <<g_selectedIndex, selVars, g_needRedraw, g_uiState, pc, ks,
                 wifiCalls, screen>>

NextRank == Offer

SpecRank == Init /\ [][NextRank]_vars

\* ================================================================== claims

\* The access points of the last scan that have a name, in scan order: the
\* observations offered since the table was last reset.
Offered == SelectSeq(scanResult, LAMBDA ap : ap.ssid # "")

MinOf(a, b) == IF a < b THEN a ELSE b

\* C1: after the reset and after every offer the table holds at most
\* MAX_NETWORKS entries and no held entry is weaker than the one after it.
C1_SortedAndBounded ==
  /\ g_networkCount \in 0 .. MAX_NETWORKS
  /\ \A i \in 0 .. (g_networkCount - 2) :
       g_networks[i].rssi >= g_networks[i + 1].rssi

\* C1 witness: more offers than the table holds, of differing strengths.
C1_Witness ==
  /\ Len(Offered) > MAX_NETWORKS
  /\ g_networkCount = MAX_NETWORKS
  /\ g_networks[0].rssi > g_networks[MAX_NETWORKS - 1].rssi

\* The place of the i-th offered observation in the stable, strongest-first
\* order of all of them: after every stronger one and after every equally
\* strong one offered before it.
StableRank(o, i) ==
  1 + Cardinality({j \in 1 .. Len(o) : o[j].rssi > o[i].rssi})
    + Cardinality({j \in 1 .. (i - 1) : o[j].rssi = o[i].rssi})

\* C2: the table holds exactly the first min(n, MAX_NETWORKS) of the offered
\* observations in stable strongest-first order.
C2_StableTopK ==
  /\ g_networkCount = MinOf(Len(Offered), MAX_NETWORKS)
  /\ \A i \in 1 .. Len(Offered) :
       StableRank(Offered, i) <= MAX_NETWORKS
         => g_networks[StableRank(Offered, i) - 1] = Offered[i]

\* C2 witness: a full table after an eviction, holding two equally strong
\* entries and one weaker.
C2_Witness ==
  /\ Len(Offered) > MAX_NETWORKS
  /\ g_networkCount = MAX_NETWORKS
  /\ g_networks[0].rssi = g_networks[1].rssi
  /\ g_networks[1].rssi > g_networks[MAX_NETWORKS - 1].rssi
  /\ \E i \in 1 .. Len(Offered) : StableRank(Offered, i) > MAX_NETWORKS

\* The handler is about to act on the keys it has read.
Dispatching == pc = "dispatch"

\* A rescan was done by handleKeyboard in the current tick.
RescannedThisTick ==
  /\ pc = "poll"
  /\ Len(wifiCalls) = 4
  /\ wifiCalls[1].op = "disconnect"
  /\ wifiCalls[4].op = "scanNetworks"

\* C3: whatever the state, a read holding R or r leaves the table equal to
\* the stable strongest-first top MAX_NETWORKS of the named access points of
\* the new scan, and nothing else; the state is UI_NO_NETWORKS when that is
\* empty and UI_SELECT_NETWORK with index 0 otherwise.
C3_RescanRebuilds ==
  [][(Dispatching /\ HasRescanKey(ks.word)) =>
       /\ LET named == Offered'
          IN /\ g_networkCount' = MinOf(Len(named), MAX_NETWORKS)
             /\ \A i \in 1 .. Len(named) :
                  LET rank == StableRank(named, i)
                  IN rank <= MAX_NETWORKS => g_networks'[rank - 1] = named[i]
       /\ \A i \in 0 .. (g_networkCount' - 1) : g_networks'[i].ssid # ""
       /\ g_uiState' = IF g_networkCount' = 0
                         THEN UI_NO_NETWORKS
                         ELSE UI_SELECT_NETWORK
       /\ g_selectedIndex' = 0]_vars

\* C3 witness: a rescan, made after a password was typed for a network of an
\* earlier scan, found only hidden access points: nothing is held although
\* the array still stores the earlier entries.
C3_Witness ==
  /\ RescannedThisTick
  /\ g_password # <<>>
  /\ scanResult # <<>>
  /\ g_uiState = UI_NO_NETWORKS
  /\ g_networkCount = 0
  /\ g_networks[0].ssid # ""

\* C4 as stated: in the password screen of a protected network, a read of
\* characters none of which is Q or q (no ENTER, no DEL) appends them to the
\* buffer and leaves the state UI_ENTER_PASSWORD.
C4_Original ==
  [][(/\ Dispatching
      /\ g_uiState = UI_ENTER_PASSWORD
      /\ ~g_selectedIsOpen
      /\ ~HasBackKey(ks.word)
      /\ ~ks.enter
      /\ ~ks.del) =>
       /\ g_password' = g_password \o ks.word
       /\ g_uiState' = UI_ENTER_PASSWORD]_vars

\* C4 amended: in the password screen of a protected network, when the read
\* holds neither R/r nor Q/q, its characters are appended in order to the
\* buffer (before the DEL of the same read, if any, takes the last one away)
\* and the state stays UI_ENTER_PASSWORD unless ENTER is part of the read.
C4_TypedAppended ==
  [][(/\ Dispatching
      /\ g_uiState = UI_ENTER_PASSWORD
      /\ ~g_selectedIsOpen
      /\ ~HasBackKey(ks.word)
      /\ ~HasRescanKey(ks.word)) =>
       /\ ~ks.del => g_password' = g_password \o ks.word
       /\ ks.del => g_password' = SubSeq(g_password \o ks.word, 1,
                                          Len(g_password) + Len(ks.word) - 1)
       /\ ~ks.enter => g_uiState' = UI_ENTER_PASSWORD]_vars

\* C4 witness: the screen still shows the buffer "S" of the previous tick and
\* the buffer now is "S" followed by the character typed in this one.
C4_Witness ==
  /\ pc = "poll"
  /\ g_uiState = UI_ENTER_PASSWORD
  /\ ~g_selectedIsOpen
  /\ screen.view = "password"
  /\ screen.password = <<"S">>
  /\ g_password = <<"S", "w">>

\* C5 as stated: in UI_SELECT_NETWORK and UI_NO_NETWORKS the password buffer
\* is empty (it is cleared on the way back to the list and by every scan).
C5_Original ==
  g_uiState \in {UI_SELECT_NETWORK, UI_NO_NETWORKS} => g_password = <<>>

\* C6: while the state is UI_CONNECTING every poll reads WiFi.status(), the
\* tick that begins the attempt included; the state leaves UI_CONNECTING only
\* on WL_CONNECTED (to UI_CONNECTED), on WL_CONNECT_FAILED or
\* WL_NO_SSID_AVAIL (to UI_CONNECT_FAILED) or by a rescan; every other status
\* and every other key leave it UI_CONNECTING, at every tick.
C6_PolledWhileConnecting ==
  [][/\ (pc = "poll" /\ g_uiState = UI_CONNECTING) =>
          /\ Len(wifiCalls') = Len(wifiCalls) + 1
          /\ wifiCalls'[Len(wifiCalls')].op = "status"
          /\ LET st == wifiCalls'[Len(wifiCalls')].flags[1]
             IN g_uiState' =
                  IF st = WL_CONNECTED
                    THEN UI_CONNECTED
                    ELSE IF st \in {WL_CONNECT_FAILED, WL_NO_SSID_AVAIL}
                           THEN UI_CONNECT_FAILED
                           ELSE UI_CONNECTING
     /\ (Dispatching /\ g_uiState = UI_CONNECTING /\ ~HasRescanKey(ks.word))
          => g_uiState' = UI_CONNECTING
     /\ (g_uiState = UI_CONNECTING /\ g_uiState' # UI_CONNECTING)
          => pc = "poll" \/ (Dispatching /\ HasRescanKey(ks.word))
     /\ (g_uiState # UI_CONNECTING /\ g_uiState' = UI_CONNECTING)
          => pc' = "poll"]_vars

\* C6 witness: a tick after the one that began the attempt (the screen shows
\* "connecting" already) polled a pending status and is still connecting.
C6_Witness ==
  /\ pc = "display"
  /\ g_uiState = UI_CONNECTING
  /\ screen.view = "connecting"
  /\ Len(wifiCalls) = 1
  /\ wifiCalls[1].op = "status"
  /\ wifiCalls[1].flags = <<"WL_DISCONNECTED">>

\* C7: in UI_SELECT_NETWORK with a non-empty table, a read with ENTER (and
\* no R/r) copies the name of the entry at the selection index, sets the
\* open flag exactly when that entry's encryption is WIFI_AUTH_OPEN, empties
\* the password buffer and moves to UI_ENTER_PASSWORD; the index is the one
\* before the read unless the read also holds W or S.
C7_ConfirmSelects ==
  [][(/\ Dispatching
      /\ ~HasRescanKey(ks.word)
      /\ g_uiState = UI_SELECT_NETWORK
      /\ g_networkCount > 0
      /\ ks.enter) =>
       /\ g_selectedIndex' \in 0 .. (g_networkCount - 1)
       /\ ~HasNavKey(ks.word) => g_selectedIndex' = g_selectedIndex
       /\ g_selectedSsid' = g_networks[g_selectedIndex'].ssid
       /\ g_selectedIsOpen'
            = (g_networks[g_selectedIndex'].encType = WIFI_AUTH_OPEN)
       /\ g_password' = <<>>
       /\ g_uiState' = UI_ENTER_PASSWORD
       /\ UNCHANGED <<g_networks, g_networkCount>>]_vars

\* C7 witness: the list was on screen and this tick's ENTER selected the
\* protected WEP network at index 1 or beyond.
C7_Witness ==
  /\ pc = "poll"
  /\ screen.view = "networkList"
  /\ g_uiState = UI_ENTER_PASSWORD
  /\ g_selectedIndex > 0
  /\ g_networks[g_selectedIndex].encType = WIFI_AUTH_WEP
  /\ g_selectedSsid = g_networks[g_selectedIndex].ssid
  /\ ~g_selectedIsOpen
  /\ g_password = <<>>

\* C8: in the password screen of an open network the buffer is empty and a
\* read without R/r and Q/q never changes it; without ENTER the state stays
\* UI_ENTER_PASSWORD, with ENTER it becomes UI_CONNECTING.
C8_OpenNetworkIgnoresTyping ==
  [][(/\ Dispatching
      /\ ~HasRescanKey(ks.word)
      /\ ~HasBackKey(ks.word)
      /\ g_uiState = UI_ENTER_PASSWORD
      /\ g_selectedIsOpen) =>
       /\ g_password = <<>>
       /\ g_password' = <<>>
       /\ g_uiState' = IF ks.enter THEN UI_CONNECTING ELSE UI_ENTER_PASSWORD]_vars

\* C8 witness: the password screen of an open network was on screen and this
\* tick's ENTER began the connection, with an empty buffer.
C8_Witness ==
  /\ pc = "poll"
  /\ screen.view = "password"
  /\ screen.isOpen
  /\ g_selectedIsOpen
  /\ g_uiState = UI_CONNECTING
  /\ g_password = <<>>
  /\ wifiCalls[Len(wifiCalls)].op = "begin"
  /\ ~wifiCalls[Len(wifiCalls)].hasPass

\* C9: in the password screen of a protected network, DEL alone takes away
\* exactly the last character of a non-empty buffer and leaves an empty one
\* empty; a character typed in the same read as DEL is the one taken away,
\* so the buffer is what it was.
C9_DeleteRemovesLast ==
  [][(/\ Dispatching
      /\ ~HasRescanKey(ks.word)
      /\ ~HasBackKey(ks.word)
      /\ g_uiState = UI_ENTER_PASSWORD
      /\ ~g_selectedIsOpen
      /\ ks.del) =>
       /\ (ks.word = <<>> /\ g_password = <<>>) => g_password' = <<>>
       /\ (ks.word = <<>> /\ g_password # <<>>) =>
            /\ Len(g_password') = Len(g_password) - 1
            /\ g_password' \o <<g_password[Len(g_password)]>> = g_password
       /\ Len(ks.word) = 1 => g_password' = g_password]_vars

\* C9 witness: the screen shows the buffer "Sw" typed before and this tick's
\* DEL left "S".
C9_Witness ==
  /\ pc = "poll"
  /\ g_uiState = UI_ENTER_PASSWORD
  /\ ~g_selectedIsOpen
  /\ screen.view = "password"
  /\ screen.password = <<"S", "w">>
  /\ g_password = <<"S">>

RECURSIVE Presses(_, _, _, _)
\* The index after n presses of S (down = TRUE) or of W.
Presses(n, down, idx, count) ==
  IF n = 0
    THEN idx
    ELSE Presses(n - 1, down,
                 IF down THEN KeyDown(idx, count) ELSE KeyUp(idx, count), count)

\* C10: in UI_SELECT_NETWORK with count entries, W at index 0 gives count-1
\* and otherwise one less, S at count-1 gives 0 and otherwise one more, W
\* then S gives the index back, and so do count presses of S or of W.
C10_SelectionWraps ==
  [][(/\ Dispatching
      /\ ~HasRescanKey(ks.word)
      /\ g_uiState = UI_SELECT_NETWORK
      /\ g_networkCount > 0) =>
       /\ (Len(ks.word) = 1 /\ IsUpKey(ks.word[1])) =>
            g_selectedIndex' = IF g_selectedIndex = 0
                                 THEN g_networkCount - 1
                                 ELSE g_selectedIndex - 1
       /\ (Len(ks.word) = 1 /\ IsDownKey(ks.word[1])) =>
            g_selectedIndex' = IF g_selectedIndex = g_networkCount - 1
                                 THEN 0
                                 ELSE g_selectedIndex + 1
       /\ (Len(ks.word) = 2 /\ IsUpKey(ks.word[1]) /\ IsDownKey(ks.word[2])) =>
            g_selectedIndex' = g_selectedIndex
       /\ Presses(g_networkCount, TRUE, g_selectedIndex, g_networkCount)
            = g_selectedIndex
       /\ Presses(g_networkCount, FALSE, g_selectedIndex, g_networkCount)
            = g_selectedIndex
       /\ g_selectedIndex' \in 0 .. (g_networkCount - 1)]_vars

\* C10 witness: the list of a full table was on screen with index 0 and this
\* tick's W wrapped the index to the last entry.
C10_Witness ==
  /\ pc = "poll"
  /\ g_uiState = UI_SELECT_NETWORK
  /\ g_networkCount = MAX_NETWORKS
  /\ screen.view = "networkList"
  /\ screen.index = 0
  /\ g_selectedIndex = MAX_NETWORKS - 1

\* C11: a read that begins a connection attempt calls the non-erasing
\* WiFi.disconnect(false, false) and then, as the last call, WiFi.begin with
\* the selected name: without a password for an open network, and for a
\* protected one with the buffer as the characters and the DEL of that same
\* read have left it.
C11_DisconnectThenBegin ==
  [][(Dispatching /\ g_uiState # UI_CONNECTING /\ g_uiState' = UI_CONNECTING) =>
       LET n == Len(wifiCalls')
           typed == g_password \o ks.word
       IN /\ n >= 2
          /\ \A i \in 1 .. (n - 1) : wifiCalls'[i].op # "begin"
          /\ wifiCalls'[n - 1].op = "disconnect"
          /\ wifiCalls'[n - 1].flags = <<"false", "false">>
          /\ wifiCalls'[n].op = "begin"
          /\ wifiCalls'[n].ssid = g_selectedSsid
          /\ g_selectedSsid' = g_selectedSsid
          /\ wifiCalls'[n].hasPass = ~g_selectedIsOpen
          /\ g_selectedIsOpen => wifiCalls'[n].pass = <<>>
          /\ ~g_selectedIsOpen =>
               /\ wifiCalls'[n].pass = g_password'
               /\ wifiCalls'[n].pass =
                    IF ks.del THEN SubSeq(typed, 1, Len(typed) - 1) ELSE typed]_vars

\* C11 witness: the screen shows the buffer "S" of the previous tick; this
\* tick's read typed w and pressed ENTER, and the join was requested with "Sw".
C11_Witness ==
  /\ pc = "poll"
  /\ g_uiState = UI_CONNECTING
  /\ ~g_selectedIsOpen
  /\ screen.view = "password"
  /\ screen.password = <<"S">>
  /\ Len(wifiCalls) = 3
  /\ wifiCalls[2].op = "disconnect"
  /\ wifiCalls[3].op = "begin"
  /\ wifiCalls[3].pass = <<"S", "w">>

\* The session state, the ranked set with its selection index, and the
\* selected network with its password buffer.
SessionData ==
  <<g_uiState, Held(g_networks, g_networkCount), g_selectedIndex, selVars>>

\* C12: in NoNetworksFound, Connected and ConnectFailed no step of the loop
\* other than the handling of a read holding r or R changes the session state,
\* the ranked set, the selection index or the selected network; the poll does
\* not read the connection status there.
C12_InertStates ==
  [][(/\ pc # "setup"
      /\ g_uiState \in {UI_NO_NETWORKS, UI_CONNECTED, UI_CONNECT_FAILED}
      /\ ~(Dispatching /\ HasRescanKey(ks.word))) =>
       /\ UNCHANGED <<g_uiState, g_networks, g_networkCount, g_selectedIndex,
                      selVars>>
       /\ \A i \in 1 .. Len(wifiCalls') : wifiCalls'[i].op # "status"]_vars

\* C12 witness: Back and Confirm are pressed together while connected.
C12_Witness ==
  /\ Dispatching
  /\ g_uiState = UI_CONNECTED
  /\ ks.word = <<"Q">>
  /\ ks.enter
  /\ screen.view = "connected"

\* C13: every step that changes the session state or its data leaves the
\* dirty flag set; the screen is redrawn only by the redraw that ends the tick
\* and only with the flag set (a scan shows its banner and sets the flag), and
\* after that redraw the flag is clear and the screen shows the current state
\* and data.
C13_RedrawProtocol ==
  [][/\ SessionData' # SessionData => g_needRedraw'
     /\ (pc # "display" /\ screen' # screen) =>
          (screen' = ScanBanner /\ g_needRedraw')
     /\ pc = "display" =>
          /\ ~g_needRedraw => screen' = screen
          /\ ~g_needRedraw'
          /\ screen' = Draw'
          /\ pc' = "keyboard"
     /\ pc' = "display" => pc = "poll"]_vars

\* C13 witness: a tick has ended after the buffer was edited, and the screen
\* shows the edited buffer.
C13_Witness ==
  /\ pc = "keyboard"
  /\ wifiCalls = <<>>
  /\ ~g_needRedraw
  /\ g_uiState = UI_ENTER_PASSWORD
  /\ g_password = <<"S", "w">>
  /\ screen = Draw
  /\ screen.password = <<"S", "w">>

\* The observation offered by the step, and the table full before it.
Newcomer == scanResult'[Len(scanResult')]
OfferToFull == g_networkCount = MAX_NETWORKS /\ Len(scanResult') = Len(scanResult) + 1

\* C14: offering to a full table an observation that is not stronger than
\* the last held entry leaves the entries and the count unchanged.
C14_WeakOfferDiscarded ==
  [][(OfferToFull /\ Newcomer.rssi <= g_networks[MAX_NETWORKS - 1].rssi) =>
       UNCHANGED <<g_networks, g_networkCount>>]_vars

\* C14 witness: the table was full, the last offer was as strong as its last
\* entry, and the table does not hold it.
C14_Witness ==
  /\ Len(scanResult) > MAX_NETWORKS
  /\ g_networkCount = MAX_NETWORKS
  /\ scanResult[Len(scanResult)].rssi = g_networks[MAX_NETWORKS - 1].rssi
  /\ \A i \in Indexes : g_networks[i] # scanResult[Len(scanResult)]

\* C15: offering to a full table an observation stronger than the last held
\* entry puts it at the first index whose entry is strictly weaker, keeps the
\* entries before that index, moves the entries from that index on one place
\* down, drops the previous last entry, and leaves the count at MAX_NETWORKS.
C15_StrongOfferEvictsLast ==
  [][(OfferToFull /\ Newcomer.rssi > g_networks[MAX_NETWORKS - 1].rssi) =>
       LET weaker == {i \in Indexes : g_networks[i].rssi < Newcomer.rssi}
           pos == CHOOSE i \in weaker : \A j \in weaker : i <= j
       IN /\ g_networkCount' = MAX_NETWORKS
          /\ g_networks'[pos] = Newcomer
          /\ \A i \in 0 .. (pos - 1) : g_networks'[i] = g_networks[i]
          /\ \A i \in (pos + 1) .. (MAX_NETWORKS - 1) :
               g_networks'[i] = g_networks[i - 1]
          /\ \A i \in Indexes : g_networks'[i] # g_networks[MAX_NETWORKS - 1]]_vars

\* C15 witness: the last offer found the table full and sits in its middle,
\* right after an equally strong entry and before weaker ones.
C15_Witness ==
  /\ Len(scanResult) > MAX_NETWORKS
  /\ g_networkCount = MAX_NETWORKS
  /\ \E pos \in 1 .. (MAX_NETWORKS - 3) :
       /\ g_networks[pos] = scanResult[Len(scanResult)]
       /\ g_networks[pos - 1].rssi = g_networks[pos].rssi
       /\ g_networks[pos + 1].rssi < g_networks[pos].rssi
       /\ g_networks[pos + 2].rssi < g_networks[pos + 1].rssi

\* C16: once setup()'s scan is done, the array and the count are changed by
\* no step other than the handling of a read holding r or R.
C16_RankedSetStableBetweenScans ==
  [][(pc # "setup" /\ ~(Dispatching /\ HasRescanKey(ks.word))) =>
       UNCHANGED <<g_networks, g_networkCount>>]_vars

\* C16 witness: a connection attempt to the second of three scanned networks
\* has failed, and the table still holds the three of the scan.
C16_Witness ==
  /\ pc = "display"
  /\ g_uiState = UI_CONNECT_FAILED
  /\ g_selectedIndex = 1
  /\ g_selectedSsid = "C"
  /\ scanResult = <<ApA, ApB, ApC>>
  /\ Held(g_networks, g_networkCount) = <<ApA, ApC, ApB>>

\* C17: when a tick begins, the state is UI_NO_NETWORKS exactly when the
\* table is empty, and in every other state the table holds between 1 and
\* MAX_NETWORKS entries and the selection index is one of theirs.
C17_StateMatchesCount ==
  pc = "keyboard" =>
    /\ g_uiState = UI_NO_NETWORKS <=> g_networkCount = 0
    /\ g_uiState # UI_NO_NETWORKS =>
         /\ 1 <= g_networkCount
         /\ g_networkCount <= MAX_NETWORKS
         /\ 0 <= g_selectedIndex
         /\ g_selectedIndex < g_networkCount

\* C17 witness: a tick begins while connected to the last entry of a full table.
C17_Witness ==
  /\ pc = "keyboard"
  /\ g_uiState = UI_CONNECTED
  /\ g_networkCount = MAX_NETWORKS
  /\ g_selectedIndex = MAX_NETWORKS - 1

\* C18: a read holding r or R only rescans: the selected network and the
\* buffer stay as they are, no connection is begun, the selection index is
\* reset and the state is the one the scan gives, whatever else is pressed.
\* When the password is being entered, a read holding q or Q and no r or R
\* goes back to the list with an empty buffer and begins no connection,
\* whatever else is pressed.
C18_KeyPrecedence ==
  [][/\ (Dispatching /\ \E i \in 1 .. Len(ks.word) : ks.word[i] \in {"r", "R"}) =>
          /\ UNCHANGED selVars
          /\ g_selectedIndex' = 0
          /\ g_uiState' = IF Offered' = <<>> THEN UI_NO_NETWORKS ELSE UI_SELECT_NETWORK
          /\ Len(wifiCalls') = 4
          /\ \A i \in 1 .. Len(wifiCalls') : wifiCalls'[i].op # "begin"
     /\ (/\ Dispatching
         /\ \A i \in 1 .. Len(ks.word) : ks.word[i] \notin {"r", "R"}
         /\ \E i \in 1 .. Len(ks.word) : ks.word[i] \in {"q", "Q"}
         /\ g_uiState = UI_ENTER_PASSWORD) =>
          /\ g_uiState' = UI_SELECT_NETWORK
          /\ g_password' = <<>>
          /\ wifiCalls' = <<>>
          /\ UNCHANGED <<rankVars, g_selectedSsid, g_selectedIsOpen>>]_vars

\* C18 witness: with a password typed for a protected network, a character
\* and then Q are read together.
C18_Witness ==
  /\ Dispatching
  /\ g_uiState = UI_ENTER_PASSWORD
  /\ ~g_selectedIsOpen
  /\ g_password = <<"S">>
  /\ ks.word = <<"w", "Q">>

\* C19: in UI_CONNECTING, UI_CONNECTED and UI_CONNECT_FAILED no step other
\* than the handling of a read holding r or R changes the selected name, the
\* is-open flag or the password buffer.
C19_SelectionFrozenOnceConnecting ==
  [][(/\ g_uiState \in {UI_CONNECTING, UI_CONNECTED, UI_CONNECT_FAILED}
      /\ ~(Dispatching /\ HasRescanKey(ks.word))) =>
       UNCHANGED selVars]_vars

\* C19 witness: DEL and a character are read after the attempt with the
\* password "Sw" has failed.
C19_Witness ==
  /\ Dispatching
  /\ g_uiState = UI_CONNECT_FAILED
  /\ ~g_selectedIsOpen
  /\ g_password = <<"S", "w">>
  /\ ks.del
  /\ ks.word = <<"w">>

\* C20: for the table and the count of every reachable state and for every
\* strength, each index of the array that insertNetworkSorted reads or writes
\* lies in 0 .. MAX_NETWORKS-1.
C20_IndexesInBounds ==
  \A rssi \in RssiLevels :
    AccessedIndexes(g_networks, g_networkCount, rssi) \subseteq Indexes

\* C20 witness: the table is full after an eviction, and a newcomer stronger
\* than all of it makes the call touch every slot.
C20_Witness ==
  /\ Len(scanResult) > MAX_NETWORKS
  /\ g_networkCount = MAX_NETWORKS
  /\ \E rssi \in RssiLevels :
       /\ ~Discards(g_networks, g_networkCount, rssi)
       /\ AccessedIndexes(g_networks, g_networkCount, rssi) = Indexes

====
